---- MODULE Spec2Model ----
(***************************************************************************)
(* The pixel core of iff2gif: in-place expansion of a chunky bitmap        *)
(* (chunky.cpp), planar-to-chunky conversion (planar.cpp), HAM decoding,   *)
(* nearest-colour quantisation and error diffusion (chunky.cpp), and the   *)
(* ownership of a chunky bitmap's buffer.  Each part of the program is a   *)
(* state machine of its own over its own variables; a specification runs   *)
(* one of them and leaves the variables of the others at rest.             *)
(***************************************************************************)
EXTENDS Integers, Sequences, FiniteSets, TLC

VARIABLES
    bmp,        \* Expand: the ChunkyBitmap being expanded (its fields)
    xp,         \* Expand: the locals of Expand / Expand1 / Expand2 / Expand4
    orig,       \* Expand: the unscaled source image the buffer was loaded with
    planar,     \* ToChunky: the PlanarBitmap (its fields, Planes and PlaneData)
    chunky,     \* ToChunky: the destination buffer, one element per pixel slot
    tc,         \* ToChunky: where the caller is, and destextrawidth
    ham,        \* HAM6toRGB / HAM8toRGB: source bitmap, palette, locals, output
    img,        \* RGBtoPalette: the RGB source bitmap and the palette
    quant,      \* RGBtoPalette: the locals of the conversion and its output
    diffused,   \* RGBtoPalette: per pixel, the residual the kernel spread
    objs,       \* ownership: the ChunkyBitmap instances and their fields
    heap,       \* ownership: per buffer of new[], how often delete[] took it
    call        \* construction: one call, its arguments and how far it got

expandVars == <<bmp, xp, orig>>
planarVars == <<planar, chunky, tc>>
hamVars == <<ham>>
quantVars == <<img, quant, diffused>>
ownerVars == <<objs, heap>>
callVars == <<call>>
vars == <<bmp, xp, orig, planar, chunky, tc, ham, img, quant, diffused,
          objs, heap, call>>

\* What a step of one part leaves alone: the variables of the other parts.
RestOfExpand == UNCHANGED <<planarVars, hamVars, quantVars, ownerVars, callVars>>
RestOfPlanar == UNCHANGED <<expandVars, hamVars, quantVars, ownerVars, callVars>>
RestOfHam == UNCHANGED <<expandVars, planarVars, quantVars, ownerVars, callVars>>
RestOfQuant == UNCHANGED <<expandVars, planarVars, hamVars, ownerVars, callVars>>
RestOfOwner == UNCHANGED <<expandVars, planarVars, hamVars, quantVars, callVars>>
RestOfCall == UNCHANGED <<expandVars, planarVars, hamVars, quantVars, ownerVars>>

\* The parts at rest.
HamIdle == ham = [pc |-> "idle"]
QuantIdle == img = <<>> /\ quant = [pc |-> "idle"] /\ diffused = <<>>
OwnerIdle == objs = <<>> /\ heap = <<>>
CallIdle == call = [pc |-> "idle"]

(***************************************************************************)
(* Model bounds.                                                           *)
(***************************************************************************)
MaxSrcWidth == 3
MaxSrcHeight == 3
MaxScale == 3
MaxWidth == 9
MaxHeight == 2
MaxExtra == 1
MaxHamWidth == 2
MaxHamHeight == 2
MaxHamPixels == 4
MaxImgWidth == 4
MaxImgHeight == 3

\* The content of a slot of a new[]-allocated buffer nothing has written yet.
Uninit == -1

Min(a, b) == IF a < b THEN a ELSE b
Max(a, b) == IF a > b THEN a ELSE b

\* C++ integer division, which truncates toward zero (b > 0).
TruncDiv(a, b) == IF a >= 0 THEN a \div b ELSE -((-a) \div b)

\* (byte >> bit) & 1
BitOf(byte, bit) == (byte \div (2 ^ bit)) % 2

(***************************************************************************)
(* ChunkyBitmap::Expand.  Pixels is the buffer as a function from element  *)
(* index to element; an element is BytesPerPixel bytes wide.  Expand       *)
(* computes src and dest as byte pointers and Expand1/2/4 use them as      *)
(* pointers to elements of 1, 2 or 4 bytes: a pointer is modelled as its   *)
(* element index, the byte offset divided by the element size.             *)
(***************************************************************************)
BytesPerPixelValues == {1, 2, 4}

\* The buffer ChunkyBitmap(planar, scalex, scaley) hands to Expand: allocated
\* at the scaled size, the source in the first w slots of the first h rows.
LoadedPixels(w, h, width, height, image) ==
    [i \in 0..(width * height - 1) |->
        IF (i % width) < w /\ (i \div width) < h
        THEN image[(i \div width) * w + (i % width)]
        ELSE Uninit]

\* Source pixel k carries the value k + 1: every source pixel is told apart
\* from every other and from an unwritten slot.
LabelledImage(w, h) == [k \in 0..(w * h - 1) |-> k + 1]

ExpandIdle ==
    /\ bmp = [Width |-> 0, Height |-> 0, Pitch |-> 0, BytesPerPixel |-> 0,
              Pixels |-> <<>>]
    /\ xp = [pc |-> "idle"]
    /\ orig = <<>>

ExpandInit ==
    \E w \in 1..MaxSrcWidth, h \in 1..MaxSrcHeight,
       scalex \in 1..MaxScale, scaley \in 1..MaxScale,
       bpp \in BytesPerPixelValues :
        /\ orig = [w |-> w, h |-> h, img |-> LabelledImage(w, h)]
        /\ bmp = [Width |-> w * scalex, Height |-> h * scaley,
                  Pitch |-> w * scalex * bpp, BytesPerPixel |-> bpp,
                  Pixels |-> LoadedPixels(w, h, w * scalex, h * scaley,
                                          LabelledImage(w, h))]
        /\ xp = [pc |-> "call", scalex |-> scalex, scaley |-> scaley,
                 srcwidth |-> 0, srcheight |-> 0, src |-> 0, dest |-> 0,
                 sy |-> 0, yy |-> 0, ysrc |-> 0]

\* const uint8_t *src = Pixels + (srcheight - 1) * Pitch, as an element index.
ExpandSrc(srcheight, pitch, bpp) == ((srcheight - 1) * pitch) \div bpp

\* uint8_t *dest = Pixels + Height * Pitch, as an element index.
ExpandDest(height, pitch, bpp) == (height * pitch) \div bpp

\* for (sx = srcwidth - 1; sx >= 0; --sx) for (xx = scalex; xx > 0; --xx)
\*     *--dest = src[sx];
\* entered with sx = srcwidth - 1 and xx = scalex; gives the buffer and dest.
RECURSIVE ExpandHorizontally(_, _, _, _, _, _)
ExpandHorizontally(pix, src, dest, sx, xx, scalex) ==
    IF sx < 0 THEN [Pixels |-> pix, dest |-> dest]
    ELSE IF xx = 0 THEN ExpandHorizontally(pix, src, dest, sx - 1, scalex, scalex)
    ELSE ExpandHorizontally([pix EXCEPT ![dest - 1] = pix[src + sx]],
                            src, dest - 1, sx, xx - 1, scalex)

\* A memcpy handed the row's length in pixels where it needs it in bytes.
MemcpyWidthForPitch(pix, to, from, nbytes, bpp) ==
    [i \in DOMAIN pix |->
        IF i >= to /\ i < to + ((nbytes \div bpp) \div bpp) THEN pix[from + (i - to)]
        ELSE pix[i]]

\* memcpy(to, from, n bytes) on a buffer of elements of bpp bytes.  The two
\* ranges Expand passes are whole rows: they are disjoint or the same row
\* (the last copy of source row 0 when scalex == 1), which leaves it as it is.
Memcpy(pix, to, from, nbytes, bpp) ==
    [i \in DOMAIN pix |->
        IF i >= to /\ i < to + (nbytes \div bpp) THEN pix[from + (i - to)]
        ELSE pix[i]]

\* Expand: the early return, or the set-up and the switch on BytesPerPixel.
Expand ==
    /\ xp.pc = "call"
    /\ IF xp.scalex = 1 /\ xp.scaley = 1
       THEN xp' = [xp EXCEPT !.pc = "done"]
       ELSE xp' = [xp EXCEPT
                !.pc = IF bmp.BytesPerPixel \in {1, 2, 4} THEN "row" ELSE "done",
                !.srcwidth = bmp.Width \div xp.scalex,
                !.srcheight = bmp.Height \div xp.scaley,
                !.src = ExpandSrc(bmp.Height \div xp.scaley, bmp.Pitch,
                                  bmp.BytesPerPixel),
                !.dest = ExpandDest(bmp.Height, bmp.Pitch, bmp.BytesPerPixel),
                !.sy = bmp.Height \div xp.scaley]
    /\ UNCHANGED <<bmp, orig>>
    /\ RestOfExpand

\* One source row, scalex != 1: expand it into the row that ends at dest.
ExpandRowHorizontally ==
    /\ xp.pc = "row" /\ xp.sy > 0 /\ xp.scalex # 1
    /\ LET r == ExpandHorizontally(bmp.Pixels, xp.src, xp.dest,
                                   xp.srcwidth - 1, xp.scalex, xp.scalex)
       IN /\ bmp' = [bmp EXCEPT !.Pixels = r.Pixels]
          /\ xp' = [xp EXCEPT !.pc = "copy", !.dest = r.dest, !.ysrc = r.dest,
                              !.yy = xp.scaley - 1]
    /\ UNCHANGED orig
    /\ RestOfExpand

\* One source row, scalex == 1: copy straight from the source row.
ExpandRowStraight ==
    /\ xp.pc = "row" /\ xp.sy > 0 /\ xp.scalex = 1
    /\ xp' = [xp EXCEPT !.pc = "copy", !.ysrc = xp.src, !.yy = xp.scaley]
    /\ UNCHANGED <<bmp, orig>>
    /\ RestOfExpand

\* for (; yy > 0; --yy, dest -= Width) memcpy(dest - Width, ysrc, Pitch);
ExpandCopyRow ==
    /\ xp.pc = "copy" /\ xp.yy > 0
    /\ bmp' = [bmp EXCEPT !.Pixels = Memcpy(bmp.Pixels, xp.dest - bmp.Width,
                                            xp.ysrc, bmp.Pitch,
                                            bmp.BytesPerPixel)]
    /\ xp' = [xp EXCEPT !.yy = xp.yy - 1, !.dest = xp.dest - bmp.Width]
    /\ UNCHANGED orig
    /\ RestOfExpand

\* The outer loop's step: --sy, src -= Width.
ExpandNextRow ==
    /\ xp.pc = "copy" /\ xp.yy = 0
    /\ xp' = [xp EXCEPT !.pc = "row", !.sy = xp.sy - 1,
                        !.src = xp.src - bmp.Width]
    /\ UNCHANGED <<bmp, orig>>
    /\ RestOfExpand

ExpandReturn ==
    /\ xp.pc = "row" /\ xp.sy = 0
    /\ xp' = [xp EXCEPT !.pc = "done"]
    /\ UNCHANGED <<bmp, orig>>
    /\ RestOfExpand

ExpandNext ==
    \/ Expand
    \/ ExpandRowHorizontally
    \/ ExpandRowStraight
    \/ ExpandCopyRow
    \/ ExpandNextRow
    \/ ExpandReturn


(***************************************************************************)
(* PlanarBitmap and PlanarBitmap::ToChunky.  PlaneData is the one buffer   *)
(* of max(NumPlanes, 8) planes of Pitch * Height bytes; Planes[i] is the   *)
(* offset of plane i in it, Null for i >= NumPlanes.                       *)
(***************************************************************************)
MaxPlanes == 31
Null == -1

PlanarIdle ==
    /\ planar = [Width |-> 0, Height |-> 0, Pitch |-> 0, NumPlanes |-> 0,
                 Planes |-> <<>>, PlaneData |-> <<>>]
    /\ chunky = <<>>
    /\ tc = [pc |-> "idle"]

\* int realplanes = std::max(nPlanes, 8);
RealPlanes(nPlanes) == Max(nPlanes, 8)

\* Pitch = ((w + 15) / 16) * 2;
PlanarPitch(w) == TruncDiv(w + 15, 16) * 2

\* PlanarBitmap::PlanarBitmap(w, h, nPlanes), past its assert: the fields, the
\* zeroed buffer and the plane pointers.
PlanarBitmapNew(w, h, nPlanes) ==
    [Width |-> w, Height |-> h, Pitch |-> PlanarPitch(w), NumPlanes |-> nPlanes,
     Planes |-> [i \in 0..31 |-> IF i < nPlanes
                                 THEN (PlanarPitch(w) * h) * i ELSE Null],
     PlaneData |-> [k \in 0..(PlanarPitch(w) * h * RealPlanes(nPlanes) - 1) |-> 0]]

\* The element of the destination: uint8_t, uint16_t or uint32_t.
DestBits(nPlanes) == IF nPlanes <= 8 THEN 8 ELSE IF nPlanes <= 16 THEN 16 ELSE 32

\* A value stored in an unsigned integer of the given width.  No value this
\* model computes reaches 2^31, so 32 bits never cut anything off.
Truncate(v, bits) == IF bits >= 32 THEN v ELSE v % (2 ^ bits)

PlanarInit ==
    \E w \in 1..MaxWidth, h \in 1..MaxHeight, n \in 0..MaxPlanes,
       extra \in 0..MaxExtra :
        /\ planar = PlanarBitmapNew(w, h, n)
        /\ chunky = [k \in 0..((w + extra) * h - 1) |-> Uninit]
        /\ tc = [pc |-> "constructed", destextrawidth |-> extra]

\* PlanarBitmap::FillBitplane(plane, set)
FillBitplane ==
    /\ tc.pc = "constructed"
    /\ \E plane \in 0..(planar.NumPlanes - 1), set \in BOOLEAN :
        planar' = [planar EXCEPT !.PlaneData =
            [k \in DOMAIN planar.PlaneData |->
                IF /\ k >= planar.Planes[plane]
                   /\ k < planar.Planes[plane] + planar.Pitch * planar.Height
                THEN (IF set THEN 255 ELSE 0)
                ELSE planar.PlaneData[k]]]
    /\ tc' = [tc EXCEPT !.pc = "loaded"]
    /\ UNCHANGED chunky
    /\ RestOfPlanar

\* The decoder stores a pixel of all ones at column x of row y: bit 7 - x mod 8
\* of byte x / 8 of that row, through each of Planes[0 .. NumPlanes-1].  The
\* column may lie in the padding of the row, at or beyond Width.
StorePixel ==
    /\ tc.pc = "constructed" /\ planar.NumPlanes > 0
    /\ \E x \in 0..(planar.Pitch * 8 - 1), y \in 0..(planar.Height - 1) :
        planar' = [planar EXCEPT !.PlaneData =
            [k \in DOMAIN planar.PlaneData |->
                IF /\ k < planar.Pitch * planar.Height * planar.NumPlanes
                   /\ k % (planar.Pitch * planar.Height)
                        = y * planar.Pitch + (x \div 8)
                THEN 2 ^ (7 - (x % 8))
                ELSE planar.PlaneData[k]]]
    /\ tc' = [tc EXCEPT !.pc = "loaded"]
    /\ UNCHANGED chunky
    /\ RestOfPlanar

\* The decoder fills every plane it was given, Planes[0 .. NumPlanes-1].
StoreAll ==
    /\ tc.pc = "constructed" /\ planar.NumPlanes > 0
    /\ planar' = [planar EXCEPT !.PlaneData =
            [k \in DOMAIN planar.PlaneData |->
                IF k < planar.Pitch * planar.Height * planar.NumPlanes
                THEN 255 ELSE 0]]
    /\ tc' = [tc EXCEPT !.pc = "loaded"]
    /\ UNCHANGED chunky
    /\ RestOfPlanar

\* The bit-serial loop with the planes taken lowest first: plane 0 ends up
\* in the highest bit.
RECURSIVE SerialPixelLowFirst(_, _, _, _, _, _, _)
SerialPixelLowFirst(pb, byte, bit, i, pixel, bits, k) ==
    IF k >= pb.NumPlanes THEN pixel
    ELSE SerialPixelLowFirst(pb, byte, bit, i, Truncate(pixel * 2
                + BitOf(pb.PlaneData[pb.Planes[k] + byte], bit), bits), bits, k + 1)

SerialPixelReversed(pb, byte, bit, i, pixel, bits) ==
    SerialPixelLowFirst(pb, byte, bit, i, pixel, bits, 0)

\* for (int i = NumPlanes - 1; i >= 0; --i)
\*     pixel = (pixel << 1) | ((Planes[i][byte] >> bit) & 1);
\* entered with i = NumPlanes - 1 and pixel = 0.
RECURSIVE SerialPixel(_, _, _, _, _, _)
SerialPixel(pb, byte, bit, i, pixel, bits) ==
    IF i < 0 THEN pixel
    ELSE SerialPixel(pb, byte, bit, i - 1,
                     Truncate(pixel * 2
                        + BitOf(pb.PlaneData[pb.Planes[i] + byte], bit), bits),
                     bits)

\* rotate8x8(src, srcstep, dst, dststep): the 8 bytes src[0], src[srcstep], ...
\* are the rows of an 8x8 bit matrix; byte k of the output takes bit 7-k of
\* each of them, row i giving bit i.
Rotate8x8(data, src, srcstep, out, dst, dststep) ==
    [k \in DOMAIN out |->
        IF k >= dst /\ k < dst + 8 * dststep /\ (k - dst) % dststep = 0
        THEN LET c == (k - dst) \div dststep
             IN  BitOf(data[src], 7 - c)
                 + 2 * BitOf(data[src + srcstep], 7 - c)
                 + 4 * BitOf(data[src + 2 * srcstep], 7 - c)
                 + 8 * BitOf(data[src + 3 * srcstep], 7 - c)
                 + 16 * BitOf(data[src + 4 * srcstep], 7 - c)
                 + 32 * BitOf(data[src + 5 * srcstep], 7 - c)
                 + 64 * BitOf(data[src + 6 * srcstep], 7 - c)
                 + 128 * BitOf(data[src + 7 * srcstep], 7 - c)
        ELSE out[k]]

\* for (x = 0; x < Width >> 3; ++x, out += 8)
\*     rotate8x8(PlaneData + in + x, srcstep, out, 1);
RECURSIVE EightAtATime(_, _, _, _, _)
EightAtATime(pb, dest, in, x, out) ==
    IF x < pb.Width \div 8
    THEN EightAtATime(pb, Rotate8x8(pb.PlaneData, in + x, pb.Pitch * pb.Height,
                                    dest, out, 1),
                      in, x + 1, out + 8)
    ELSE [dest |-> dest, out |-> out, x |-> x]

\* for (...; x < Width; ++x) { bit = 7 - (x & 7); ...; *out++ = pixel; }
\* with the byte index either fixed (the overflow of the 8-at-a-time path)
\* or in + (x >> 3) (the 16 and 32 bit paths).
RECURSIVE SerialRow(_, _, _, _, _, _, _)
SerialRow(pb, dest, in, fixedbyte, x, out, bits) ==
    IF x < pb.Width
    THEN SerialRow(pb,
                   [dest EXCEPT ![out] =
                        SerialPixel(pb,
                                    IF fixedbyte # Null THEN fixedbyte
                                    ELSE in + (x \div 8),
                                    7 - (x % 8), pb.NumPlanes - 1, 0, bits)],
                   in, fixedbyte, x + 1, out + 1, bits)
    ELSE [dest |-> dest, out |-> out]

\* The row loop of the three paths: for (y = 0; y < Height; ++y) { ...;
\* out += destextrawidth; in += Pitch; }
RECURSIVE ToChunkyRows(_, _, _, _, _, _)
ToChunkyRows(pb, dest, in, y, out, extra) ==
    IF y >= pb.Height THEN dest
    ELSE IF pb.NumPlanes <= 8
    THEN LET g == EightAtATime(pb, dest, in, 0, out)
             r == SerialRow(pb, g.dest, in, in + g.x, g.x * 8, g.out, 8)
         IN  ToChunkyRows(pb, r.dest, in + pb.Pitch, y + 1, r.out + extra, extra)
    ELSE LET r == SerialRow(pb, dest, in, Null, 0, out, DestBits(pb.NumPlanes))
         IN  ToChunkyRows(pb, r.dest, in + pb.Pitch, y + 1, r.out + extra, extra)

\* PlanarBitmap::ToChunky(dest, destextrawidth)
ToChunky ==
    /\ tc.pc \in {"constructed", "loaded"}
    /\ chunky' = IF planar.NumPlanes <= 0 THEN chunky
                 ELSE ToChunkyRows(planar, chunky, 0, 0, 0, tc.destextrawidth)
    /\ tc' = [tc EXCEPT !.pc = "done"]
    /\ UNCHANGED planar
    /\ RestOfPlanar

PlanarNext ==
    \/ FillBitplane
    \/ StorePixel
    \/ StoreAll
    \/ ToChunky

InitExpand ==
    ExpandInit /\ PlanarIdle /\ HamIdle /\ QuantIdle /\ OwnerIdle /\ CallIdle
NextExpand == ExpandNext
SpecExpand == InitExpand /\ [][NextExpand]_vars

InitPlanar ==
    PlanarInit /\ ExpandIdle /\ HamIdle /\ QuantIdle /\ OwnerIdle /\ CallIdle
NextPlanar == PlanarNext
SpecPlanar == InitPlanar /\ [][NextPlanar]_vars

\* Bit i of the value v.
ValueBit(v, i) == (v \div (2 ^ i)) % 2

(***************************************************************************)
(* C3.  When ToChunky has returned, for NumPlanes in 1..31 the element at  *)
(* y * (Width + destextrawidth) + x holds, for every x < Width and         *)
(* y < Height, the value whose bit i (i < NumPlanes) is bit 7 - x mod 8 of *)
(* plane i's byte at (x / 8, y) and whose higher bits are 0, on the        *)
(* 8-at-a-time path as on the bit-serial ones; the extra slots of each row *)
(* are not written.                                                        *)
(***************************************************************************)
ToChunkyDeinterleaves ==
    (tc.pc = "done" /\ planar.NumPlanes >= 1) =>
        \A k \in DOMAIN chunky :
            LET x == k % (planar.Width + tc.destextrawidth)
                y == k \div (planar.Width + tc.destextrawidth)
            IN  IF x >= planar.Width THEN chunky[k] = Uninit
                ELSE /\ chunky[k] >= 0
                     /\ \A i \in 0..30 :
                          ValueBit(chunky[k], i) =
                            IF i < planar.NumPlanes
                            THEN BitOf(planar.PlaneData[
                                        planar.Pitch * planar.Height * i
                                        + y * planar.Pitch + (x \div 8)],
                                       7 - (x % 8))
                            ELSE 0

\* ToChunky has returned from an image of 5 planes, 9 pixels wide (one group
\* of 8 and one overflow pixel) and 2 rows with an extra slot each, whose
\* plane 4 alone was filled: every pixel is 16 and the extra slot is unwritten.
ToChunkyFastPathAndOverflow ==
    /\ tc.pc = "done" /\ planar.NumPlanes = 5 /\ planar.Width = 9
    /\ planar.Height = 2 /\ tc.destextrawidth = 1
    /\ chunky[0] = 16 /\ chunky[8] = 16 /\ chunky[9] = Uninit /\ chunky[18] = 16

(***************************************************************************)
(* ChunkyBitmap::HAM6toRGB and HAM8toRGB.  ham holds the source bitmap     *)
(* (Width, Height, BytesPerPixel, Pixels), the palette pal, the locals     *)
(* color, i, src and dest of the conversion, and out, the Pixels of the    *)
(* 4-bytes-per-pixel bitmap it returns.                                    *)
(***************************************************************************)
ColorRegister(r, g, b) == [red |-> r, green |-> g, blue |-> b]

\* A palette of the given size, its three channels told apart.
PaletteOf(size, variant) ==
    [k \in 0..(size - 1) |->
        ColorRegister((k * 7 + variant) % 256, (k * 13 + 5) % 256,
                      (255 - k * 3) % 256)]

\* assert(pal.size() >= 16) and assert(pal.size() >= 64)
HamMinPalette(mode) == IF mode = 6 THEN 16 ELSE 64

\* Source bytes of each mode of HAM6 (high nibble 0, 1, 2, 3) and one no case
\* of its switch matches; source bytes of each mode of HAM8.
Ham6Bytes == {3, 15, 26, 37, 60, 71}
Ham8Bytes == {3, 63, 106, 149, 252, 192}

HamInit ==
    \E mode \in {6, 8}, w \in 1..MaxHamWidth, h \in 1..MaxHamHeight :
        /\ w * h <= MaxHamPixels
        /\ \E size \in {HamMinPalette(mode) - 1, HamMinPalette(mode)},
              variant \in {1, 2},
              pixels \in [0..(w * h - 1) ->
                            IF w * h = 1 THEN 0..255
                            ELSE IF mode = 6 THEN Ham6Bytes ELSE Ham8Bytes] :
            /\ (size < HamMinPalette(mode) => variant = 1 /\ w * h = 1)
            /\ ham = [pc |-> "call", mode |-> mode,
                      Width |-> w, Height |-> h, BytesPerPixel |-> 1,
                      Pixels |-> pixels,
                      pal |-> PaletteOf(size, variant),
                      color |-> ColorRegister(0, 0, 0),
                      i |-> 0, src |-> 0, dest |-> 0, out |-> <<>>,
                      read |-> {}]

\* The asserts of HAM6toRGB / HAM8toRGB.
HamPrecondition(mode, palsize, bpp) ==
    palsize >= HamMinPalette(mode) /\ bpp = 1

\* HAM6:  intensity = *src & 0x0F;  intensity |= intensity << 4;
Ham6Intensity(byte) == Truncate((byte % 16) + (byte % 16) * 16, 8)

\* HAM8:  intensity = *src & 0x3F;  intensity = (intensity << 2) | (intensity >> 4);
Ham8Intensity(byte) == Truncate((byte % 64) * 4 + ((byte % 64) \div 16), 8)

\* HAM6 with the blue and the red case exchanged.
Ham6ApplySwapped(color, pal, byte) ==
    LET sel == (byte \div 16) * 16
    IN  IF sel = 0 THEN pal[byte]
        ELSE IF sel = 16 THEN [color EXCEPT !.red = Ham6Intensity(byte)]
        ELSE IF sel = 32 THEN [color EXCEPT !.blue = Ham6Intensity(byte)]
        ELSE IF sel = 48 THEN [color EXCEPT !.green = Ham6Intensity(byte)]
        ELSE color

\* HAM6:  switch (*src & 0xF0) { case 0x00: color = pal[*src]; case 0x10: blue;
\*        case 0x20: red; case 0x30: green; }  (no default)
Ham6Apply(color, pal, byte) ==
    LET sel == (byte \div 16) * 16
    IN  IF sel = 0 THEN pal[byte]
        ELSE IF sel = 16 THEN [color EXCEPT !.blue = Ham6Intensity(byte)]
        ELSE IF sel = 32 THEN [color EXCEPT !.red = Ham6Intensity(byte)]
        ELSE IF sel = 48 THEN [color EXCEPT !.green = Ham6Intensity(byte)]
        ELSE color

\* HAM8:  switch (*src & 0xC0) { case 0x00: color = pal[*src]; case 0x40: blue;
\*        case 0x80: red; case 0xC0: green; }
Ham8Apply(color, pal, byte) ==
    LET sel == (byte \div 64) * 64
    IN  IF sel = 0 THEN pal[byte]
        ELSE IF sel = 64 THEN [color EXCEPT !.blue = Ham8Intensity(byte)]
        ELSE IF sel = 128 THEN [color EXCEPT !.red = Ham8Intensity(byte)]
        ELSE [color EXCEPT !.green = Ham8Intensity(byte)]

\* A switch whose case 0x00 also takes the bytes of the next selector value.
HamLookupsWide(mode, byte) ==
    IF mode = 6 THEN (IF byte \div 32 = 0 THEN {byte} ELSE {})
    ELSE (IF byte \div 128 = 0 THEN {byte} ELSE {})

\* The palette index the loop body reads for this byte, if it reads one.
HamLookups(mode, byte) ==
    IF mode = 6 THEN (IF (byte \div 16) * 16 = 0 THEN {byte} ELSE {})
    ELSE (IF (byte \div 64) * 64 = 0 THEN {byte} ELSE {})

\* A conversion that starts every row from palette entry 0.
HamColorResetPerRow(h) ==
    IF h.src % h.Width = 0 THEN h.pal[0] ELSE h.color

\* The running colour a loop iteration starts from: color is declared before
\* the loop and nothing but the switch assigns it.
HamRunningColor(h) == h.color

\* HAM6toRGB / HAM8toRGB up to the loop: the asserts, ChunkyBitmap out(Width,
\* Height, 4), src, dest, color = pal[0].  A failed assert ends the program.
HamEnter(mode) ==
    /\ ham.pc = "call" /\ ham.mode = mode
    /\ IF HamPrecondition(mode, Cardinality(DOMAIN ham.pal), ham.BytesPerPixel)
       THEN ham' = [ham EXCEPT
                !.pc = "loop",
                !.out = [k \in 0..(ham.Width * 4 * ham.Height - 1) |-> Uninit],
                !.src = 0, !.dest = 0,
                !.color = ham.pal[0], !.read = {0},
                !.i = ham.Width * ham.Height]
       ELSE ham' = [ham EXCEPT !.pc = "aborted"]
    /\ RestOfHam

\* One iteration of for (i = Width * Height; i > 0; --i, ++src, dest += 4).
HamPixel(mode) ==
    /\ ham.pc = "loop" /\ ham.mode = mode /\ ham.i > 0
    /\ LET byte == ham.Pixels[ham.src]
           color == IF mode = 6
                    THEN Ham6Apply(HamRunningColor(ham), ham.pal, byte)
                    ELSE Ham8Apply(HamRunningColor(ham), ham.pal, byte)
       IN ham' = [ham EXCEPT
                !.color = color,
                !.read = ham.read \cup HamLookups(mode, byte),
                !.out = [k \in DOMAIN ham.out |->
                            IF k = ham.dest THEN color.red
                            ELSE IF k = ham.dest + 1 THEN color.green
                            ELSE IF k = ham.dest + 2 THEN color.blue
                            ELSE IF k = ham.dest + 3 THEN 255
                            ELSE ham.out[k]],
                !.i = ham.i - 1, !.src = ham.src + 1, !.dest = ham.dest + 4]
    /\ RestOfHam

\* return out;
HamReturn ==
    /\ ham.pc = "loop" /\ ham.i = 0
    /\ ham' = [ham EXCEPT !.pc = "done"]
    /\ RestOfHam

HAM6toRGB == HamEnter(6)
HAM6Pixel == HamPixel(6)
HAM8toRGB == HamEnter(8)
HAM8Pixel == HamPixel(8)

HamNext ==
    \/ HAM6toRGB
    \/ HAM6Pixel
    \/ HAM8toRGB
    \/ HAM8Pixel
    \/ HamReturn

InitHam ==
    HamInit /\ ExpandIdle /\ PlanarIdle /\ QuantIdle /\ OwnerIdle /\ CallIdle
NextHam == HamNext
SpecHam == InitHam /\ [][NextHam]_vars

\* Pixels emitted so far, and the colour of emitted pixel k.
HamEmitted == IF ham.pc \in {"loop", "done"} THEN ham.src ELSE 0
HamOutColor(k) ==
    ColorRegister(ham.out[4 * k], ham.out[4 * k + 1], ham.out[4 * k + 2])

\* The colour pixel k is decoded against: the pixel emitted before it, or
\* palette entry 0 for the first pixel of the image.
HamPrevious(k) == IF k = 0 THEN ham.pal[0] ELSE HamOutColor(k - 1)

(***************************************************************************)
(* C4.  In HAM6toRGB and HAM8toRGB a modify-blue, modify-red or            *)
(* modify-green pixel comes out with exactly that channel set to the       *)
(* decoded intensity (HAM6: (v<<4)|v of the low 4 bits, HAM8: (v<<2)|(v>>4) *)
(* of the low 6 bits) and its other two channels equal to those of the     *)
(* pixel emitted before it.                                                *)
(***************************************************************************)
HamModifyChangesOneChannel ==
    \A k \in 0..(HamEmitted - 1) :
        LET b == ham.Pixels[k]
            v == IF ham.mode = 6 THEN b % 16 ELSE b % 64
            intensity == IF ham.mode = 6 THEN v * 16 + v
                         ELSE ((v * 4) % 256) + (v \div 16)
            sel == IF ham.mode = 6
                   THEN (IF b \div 16 <= 3 THEN b \div 16 ELSE 0)
                   ELSE b \div 64
            prev == HamPrevious(k)
            now == HamOutColor(k)
        IN  /\ sel = 1 => now = ColorRegister(prev.red, prev.green, intensity)
            /\ sel = 2 => now = ColorRegister(intensity, prev.green, prev.blue)
            /\ sel = 3 => now = ColorRegister(prev.red, intensity, prev.blue)

\* A HAM6 image whose first pixel is a base colour and whose second pixel
\* modifies blue has been converted.
HamModifyBlueAfterBase ==
    /\ ham.pc = "done" /\ ham.mode = 6 /\ ham.Width * ham.Height >= 2
    /\ ham.Pixels[0] = 3 /\ ham.Pixels[1] = 26
    /\ HamOutColor(1) = [ham.pal[3] EXCEPT !.blue = 170]

\* The running colour after pixel k, folded over the whole image in raster
\* order from palette entry 0.
RECURSIVE HamFold(_)
HamFold(k) ==
    IF k < 0 THEN ham.pal[0]
    ELSE IF ham.mode = 6 THEN Ham6Apply(HamFold(k - 1), ham.pal, ham.Pixels[k])
    ELSE Ham8Apply(HamFold(k - 1), ham.pal, ham.Pixels[k])

(***************************************************************************)
(* C5.  HAM6toRGB and HAM8toRGB keep one running colour over the whole     *)
(* image in raster order: it is palette entry 0 before the first pixel, it *)
(* is not reset at the start of a row, and every emitted pixel is the      *)
(* running colour after that pixel's mode was applied, with alpha 0xFF.    *)
(***************************************************************************)
HamOneRunningColor ==
    ham.pc \in {"loop", "done"} =>
        /\ ham.color = HamFold(HamEmitted - 1)
        /\ \A k \in 0..(HamEmitted - 1) :
            /\ HamOutColor(k) = HamFold(k)
            /\ ham.out[4 * k + 3] = 255
        /\ \A k \in HamEmitted..(ham.Width * ham.Height - 1) :
            \A c \in 0..3 : ham.out[4 * k + c] = Uninit

\* A HAM8 image of two rows has been converted whose second row starts with a
\* modify-red pixel: it kept the green and blue of the last pixel of row 0,
\* which are not those of palette entry 0.
HamRowStartKeepsColor ==
    /\ ham.pc = "done" /\ ham.mode = 8 /\ ham.Width = 2 /\ ham.Height = 2
    /\ ham.Pixels[1] = 63 /\ ham.Pixels[2] = 149
    /\ HamOutColor(2) = [ham.pal[63] EXCEPT !.red = 85]
    /\ HamOutColor(2) # [ham.pal[0] EXCEPT !.red = 85]

\* What one pass of the switch makes of the running colour, for any byte.
HamApply(mode, color, pal, byte) ==
    IF mode = 6 THEN Ham6Apply(color, pal, byte) ELSE Ham8Apply(color, pal, byte)

\* A palette of the same size whose every entry differs from that of pal.
HamOtherPalette(pal) ==
    [k \in DOMAIN pal |-> [pal[k] EXCEPT !.red = (pal[k].red + 1) % 256]]

(***************************************************************************)
(* C11.  Past the asserts of HAM6toRGB and HAM8toRGB (a palette of at      *)
(* least 16, respectively 64, entries), every palette lookup is within the *)
(* palette for every source byte 0..255: pal[0] before the loop, and in    *)
(* the loop pal[byte] only for a byte below 16 (HAM6) or below 64 (HAM8);  *)
(* for every other byte the new colour does not depend on the palette.     *)
(* The lookups the conversion has made so far are all within the palette.  *)
(***************************************************************************)
HamLookupsWithinPalette ==
    ham.pc \in {"loop", "done"} =>
        /\ Cardinality(DOMAIN ham.pal) >= HamMinPalette(ham.mode)
        /\ \A byte \in 0..255 :
            /\ \A k \in HamLookups(ham.mode, byte) :
                /\ k = byte /\ k < HamMinPalette(ham.mode)
                /\ k \in DOMAIN ham.pal
                /\ HamApply(ham.mode, ham.color, ham.pal, byte) = ham.pal[k]
            /\ HamLookups(ham.mode, byte) = {} =>
                HamApply(ham.mode, ham.color, ham.pal, byte) =
                    HamApply(ham.mode, ham.color, HamOtherPalette(ham.pal), byte)
        /\ ham.read \subseteq DOMAIN ham.pal
        /\ \A k \in 0..(ham.src - 1) :
            HamLookups(ham.mode, ham.Pixels[k]) \subseteq ham.read

\* A HAM8 conversion with a palette of exactly 64 entries has returned: its
\* only source byte was 63, the highest that is looked up, and the pixel
\* written is palette entry 63.
HamHighestLookup ==
    /\ ham.pc = "done" /\ ham.mode = 8 /\ Cardinality(DOMAIN ham.pal) = 64
    /\ ham.Width * ham.Height = 1 /\ ham.Pixels[0] = 63
    /\ ham.read = {0, 63}
    /\ HamOutColor(0) = ham.pal[63]

(***************************************************************************)
(* NearestColor, the error diffusion kernels, ChunkyBitmap::RGBtoPalette,  *)
(* RGB2P_BasicQuantize and RGB2P_ErrorDiffusion.  img is the RGB source    *)
(* bitmap (a pixel is its red, green and blue bytes), the palette and the  *)
(* dither mode; quant holds the locals of the conversion and out, the      *)
(* Pixels of the bitmap it returns.                                        *)
(***************************************************************************)
INT_MAX == 2147483647

\* NearestColor's dist for one palette entry.
ColorDist(entry, r, g, b) ==
    LET rmean == TruncDiv(r + entry.red, 2)
        x == r - entry.red
        y == g - entry.green
        z == b - entry.blue
    IN  (512 + rmean) * x * x + 1024 * y * y + (767 - rmean) * z * z

\* The loop of NearestColor taking a later entry at equal distance.
RECURSIVE NearestColorLastTie(_, _, _, _, _, _, _, _)
NearestColorLastTie(pal, r, g, b, color, num, bestcolor, bestdist) ==
    IF color >= num THEN bestcolor
    ELSE LET dist == ColorDist(pal[color], r, g, b)
         IN  IF dist <= bestdist
             THEN IF dist = 0 THEN color
                  ELSE NearestColorLastTie(pal, r, g, b, color + 1, num, color, dist)
             ELSE NearestColorLastTie(pal, r, g, b, color + 1, num,
                                      bestcolor, bestdist)

\* for (int color = first; color < num; color++) { ... } return bestcolor;
RECURSIVE NearestColorLoop(_, _, _, _, _, _, _, _)
NearestColorLoop(pal, r, g, b, color, num, bestcolor, bestdist) ==
    IF color >= num THEN bestcolor
    ELSE LET dist == ColorDist(pal[color], r, g, b)
         IN  IF dist < bestdist
             THEN IF dist = 0 THEN color
                  ELSE NearestColorLoop(pal, r, g, b, color + 1, num, color, dist)
             ELSE NearestColorLoop(pal, r, g, b, color + 1, num,
                                   bestcolor, bestdist)

\* static int NearestColor(pal, r, g, b, first, num)
NearestColor(pal, r, g, b, first, num) ==
    NearestColorLoop(pal, r, g, b, first, num, first, INT_MAX)

\* A kernel entry { weight, { targets } } and the { 0 } that ends a kernel.
\* The targets an entry does not list are zero.
Diffuser(weight, to) == [weight |-> weight, to |-> to]
EndOfKernel == Diffuser(0, <<>>)

FloydSteinbergHeavy ==
    << Diffuser(28762, << <<1, 0>> >>),
       Diffuser(12288, << <<-1, 1>> >>),
       Diffuser(20480, << <<0, 1>> >>),
       Diffuser(4096, << <<1, 1>> >>),
       EndOfKernel >>

FloydSteinberg ==
    << Diffuser(28672, << <<1, 0>> >>),
       Diffuser(12288, << <<-1, 1>> >>),
       Diffuser(20480, << <<0, 1>> >>),
       Diffuser(4096, << <<1, 1>> >>),
       EndOfKernel >>

JarvisJudiceNinke ==
    << Diffuser(9557, << <<1, 0>>, <<0, 1>> >>),
       Diffuser(6826, << <<2, 0>>, <<-1, 1>>, <<1, 1>>, <<0, 2>> >>),
       Diffuser(4096, << <<-2, 1>>, <<2, 1>>, <<-1, 2>>, <<1, 2>> >>),
       Diffuser(1365, << <<-2, 2>>, <<2, 2>> >>),
       EndOfKernel >>

Stucki ==
    << Diffuser(12483, << <<1, 0>>, <<0, 1>> >>),
       Diffuser(6241, << <<2, 0>>, <<-1, 1>>, <<1, 1>>, <<0, 2>> >>),
       Diffuser(3120, << <<-2, 1>>, <<2, 1>>, <<-1, 2>>, <<1, 2>> >>),
       Diffuser(1560, << <<-2, 2>>, <<2, 2>> >>),
       EndOfKernel >>

Atkinson ==
    << Diffuser(8192, << <<1, 0>>, <<2, 0>>, <<-1, 1>>, <<0, 1>>, <<1, 1>>,
                         <<0, 2>> >>),
       EndOfKernel >>

Burkes ==
    << Diffuser(16384, << <<1, 0>>, <<0, 1>> >>),
       Diffuser(8192, << <<2, 0>>, <<-1, 1>>, <<1, 1>> >>),
       Diffuser(4096, << <<-2, 1>>, <<2, 1>> >>),
       EndOfKernel >>

Sierra3 ==
    << Diffuser(10240, << <<1, 0>>, <<0, 1>> >>),
       Diffuser(8192, << <<-1, 1>>, <<1, 1>> >>),
       Diffuser(6144, << <<2, 0>>, <<0, 2>> >>),
       Diffuser(4096, << <<-2, 1>>, <<2, 1>>, <<-1, 2>>, <<1, 2>> >>),
       EndOfKernel >>

Sierra2 ==
    << Diffuser(16384, << <<1, 0>> >>),
       Diffuser(12288, << <<2, 0>>, <<0, 1>> >>),
       Diffuser(8192, << <<-1, 1>>, <<1, 1>> >>),
       Diffuser(4096, << <<-2, 1>>, <<2, 1>> >>),
       EndOfKernel >>

SierraLite ==
    << Diffuser(32768, << <<1, 0>> >>),
       Diffuser(16384, << <<-1, 1>>, <<0, 1>> >>),
       EndOfKernel >>

\* ErrorDiffusionKernels[dithermode - 1], here indexed from 1.
ErrorDiffusionKernels ==
    << FloydSteinberg, JarvisJudiceNinke, Stucki, Burkes, Atkinson, Sierra3,
       Sierra2, SierraLite >>

\* std::clamp(v, 0, 255)
Clamp(v) == Max(0, Min(v, 255))

\* dest[x] = c: an int stored in a uint8_t.
StoredIndexOneBased(c) == Truncate(c + 1, 8)
StoredIndex(c) == Truncate(c, 8)

ZeroRow(width) == [c \in 0..(width - 1) |-> <<0, 0, 0>>]

\* The inner loop over the targets of one entry, from target j on:
\* for (j = 0; j < countof(to) && to[j].x | to[j].y; ++j) { xx = x + to[j].x;
\*     if (xx >= 0 && xx < Width) error[to[j].y][xx][0..2] += rw, gw, bw; }
RECURSIVE DiffuseTargets(_, _, _, _, _, _)
DiffuseTargets(error, to, j, x, width, w) ==
    IF j > Len(to) \/ (to[j][1] = 0 /\ to[j][2] = 0) THEN error
    ELSE LET xx == x + to[j][1]
         IN  DiffuseTargets(
                IF xx >= 0 /\ xx < width
                THEN [error EXCEPT ![to[j][2]][xx] =
                        << @[1] + w[1], @[2] + w[2], @[3] + w[3] >>]
                ELSE error,
                to, j + 1, x, width, w)

\* for (int i = 0; kernel[i].weight != 0; ++i) { rw = r * weight; ... }
RECURSIVE DiffuseKernel(_, _, _, _, _, _)
DiffuseKernel(error, kernel, i, x, width, rgb) ==
    IF kernel[i].weight = 0 THEN error
    ELSE DiffuseKernel(
            DiffuseTargets(error, kernel[i].to, 1, x, width,
                           << rgb[1] * kernel[i].weight,
                              rgb[2] * kernel[i].weight,
                              rgb[3] * kernel[i].weight >>),
            kernel, i + 1, x, width, rgb)

\* A rotation that leaves out the second swap: the row two below is zeroed
\* where it stands.
RotateErrorRowsOneSwap(error, width) ==
    [r \in 0..2 |-> IF r = 0 THEN error[1]
                    ELSE IF r = 1 THEN error[0]
                    ELSE ZeroRow(width)]

\* error[0].swap(error[1]); error[1].swap(error[2]); fill error[2] with zero.
RotateErrorRows(error, width) ==
    LET a == [error EXCEPT ![0] = error[1], ![1] = error[0]]
        b == [a EXCEPT ![1] = a[2], ![2] = a[1]]
    IN  [b EXCEPT ![2] = ZeroRow(width)]

\* The palettes tried: none, black and white, and one with entries twice.
Palettes ==
    { <<>>,
      [k \in 0..1 |-> IF k = 0 THEN ColorRegister(0, 0, 0)
                      ELSE ColorRegister(255, 255, 255)],
      [k \in 0..5 |->
        IF k \in {0, 2} THEN ColorRegister(0, 0, 0)
        ELSE IF k = 1 THEN ColorRegister(255, 255, 255)
        ELSE IF k \in {3, 5} THEN ColorRegister(128, 128, 128)
        ELSE ColorRegister(255, 0, 0)] }

\* The colours of the source images.
ImageColors ==
    [k \in 0..4 |->
        IF k = 0 THEN <<0, 0, 0>> ELSE IF k = 1 THEN <<10, 10, 10>>
        ELSE IF k = 2 THEN <<100, 100, 100>> ELSE IF k = 3 THEN <<255, 255, 255>>
        ELSE <<200, 30, 60>>]

\* What a read of pal[0] gives when the palette is empty.
StrayColors == {ColorRegister(0, 0, 0), ColorRegister(255, 255, 255)}

\* The dither modes tried: below the kernels, none, each kernel, above them.
DitherModes == -1..9

QuantInit ==
    \E w \in 1..MaxImgWidth, h \in 1..MaxImgHeight, pal \in Palettes,
       dithermode \in DitherModes, a \in 0..4, b \in 0..1, c \in 0..1 :
        /\ img = [Width |-> w, Height |-> h, BytesPerPixel |-> 4,
                  Pixels |-> [k \in 0..(w * h - 1) |->
                        ImageColors[(a + b * (k % w) + c * (k \div w)) % 5]],
                  pal |-> pal, dithermode |-> dithermode]
        /\ quant = [pc |-> "call", kernel |-> 0, x |-> 0, y |-> 0, i |-> 0,
                    src |-> 0, dest |-> 0, error |-> <<>>, out |-> <<>>,
                    stray |-> ColorRegister(0, 0, 0)]
        /\ diffused = <<>>

PaletteSize == Cardinality(DOMAIN img.pal)

\* pal[c]: an entry of the palette, or what lies at &pal[0] of an empty one.
PaletteEntry(c) == IF c \in DOMAIN img.pal THEN img.pal[c] ELSE quant.stray

\* RGBtoPalette: ChunkyBitmap out(Width, Height), then the choice between
\* RGB2P_BasicQuantize and RGB2P_ErrorDiffusion, each up to its loop.  With an
\* empty palette &pal[0] is outside the vector: a checked build stops there,
\* another goes on with whatever lies at that address.
RGBtoPalette ==
    /\ quant.pc = "call"
    /\ \E stray \in (IF PaletteSize = 0 THEN StrayColors
                     ELSE {ColorRegister(0, 0, 0)}) :
        quant' = [quant EXCEPT
            !.pc = IF img.dithermode <= 0
                      \/ img.dithermode > Len(ErrorDiffusionKernels)
                   THEN "basic" ELSE "diffuse",
            !.kernel = IF img.dithermode <= 0
                          \/ img.dithermode > Len(ErrorDiffusionKernels)
                       THEN 0 ELSE img.dithermode,
            !.out = [k \in 0..(img.Width * img.Height - 1) |-> Uninit],
            !.src = 0, !.dest = 0, !.x = 0,
            !.i = img.Width * img.Height,
            !.y = img.Height,
            !.error = [r \in 0..2 |-> ZeroRow(img.Width)],
            !.stray = stray]
    /\ diffused' = [k \in 0..(img.Width * img.Height - 1) |-> <<0, 0, 0>>]
    /\ UNCHANGED img
    /\ RestOfQuant

\* The checked build's end of a conversion with an empty palette.
RGBtoPaletteStops ==
    /\ quant.pc = "call" /\ PaletteSize = 0
    /\ quant' = [quant EXCEPT !.pc = "aborted"]
    /\ UNCHANGED <<img, diffused>>
    /\ RestOfQuant

\* One iteration of the loop of RGB2P_BasicQuantize.
BasicQuantizePixel ==
    /\ quant.pc = "basic" /\ quant.i > 0
    /\ LET p == img.Pixels[quant.src]
       IN quant' = [quant EXCEPT
            !.out[quant.dest] = StoredIndex(
                NearestColor(img.pal, p[1], p[2], p[3], 0, PaletteSize)),
            !.dest = quant.dest + 1, !.src = quant.src + 1,
            !.i = quant.i - 1]
    /\ UNCHANGED <<img, diffused>>
    /\ RestOfQuant

\* One iteration of the inner loop of RGB2P_ErrorDiffusion: pixel x of the
\* row dest points to.
ErrorDiffusionPixel ==
    /\ quant.pc = "diffuse" /\ quant.y > 0 /\ quant.x < img.Width
    /\ LET p == img.Pixels[quant.src]
           e == quant.error[0][quant.x]
           r == Clamp(p[1] + TruncDiv(e[1], 65536))
           g == Clamp(p[2] + TruncDiv(e[2], 65536))
           b == Clamp(p[3] + TruncDiv(e[3], 65536))
           c == NearestColor(img.pal, r, g, b, 0, PaletteSize)
           rgb == << r - PaletteEntry(c).red, g - PaletteEntry(c).green,
                     b - PaletteEntry(c).blue >>
       IN /\ quant' = [quant EXCEPT
                !.out[quant.dest + quant.x] = StoredIndex(c),
                !.error = DiffuseKernel(quant.error,
                                        ErrorDiffusionKernels[quant.kernel], 1,
                                        quant.x, img.Width, rgb),
                !.x = quant.x + 1, !.src = quant.src + 1]
          /\ diffused' = [diffused EXCEPT ![quant.src] = rgb]
    /\ UNCHANGED img
    /\ RestOfQuant

\* The end of a row of RGB2P_ErrorDiffusion: the rotation of the error rows,
\* then --y, dest += Width.
ErrorDiffusionEndRow ==
    /\ quant.pc = "diffuse" /\ quant.y > 0 /\ quant.x >= img.Width
    /\ quant' = [quant EXCEPT
            !.error = RotateErrorRows(quant.error, img.Width),
            !.y = quant.y - 1, !.dest = quant.dest + img.Width, !.x = 0]
    /\ UNCHANGED <<img, diffused>>
    /\ RestOfQuant

\* return out;
RGBtoPaletteReturn ==
    /\ \/ quant.pc = "basic" /\ quant.i = 0
       \/ quant.pc = "diffuse" /\ quant.y = 0
    /\ quant' = [quant EXCEPT !.pc = "done"]
    /\ UNCHANGED <<img, diffused>>
    /\ RestOfQuant

QuantNext ==
    \/ RGBtoPalette
    \/ RGBtoPaletteStops
    \/ BasicQuantizePixel
    \/ ErrorDiffusionPixel
    \/ ErrorDiffusionEndRow
    \/ RGBtoPaletteReturn

InitQuant ==
    QuantInit /\ ExpandIdle /\ PlanarIdle /\ HamIdle /\ OwnerIdle /\ CallIdle
NextQuant == QuantNext
SpecQuant == InitQuant /\ [][NextQuant]_vars

\* The weight a kernel gives the target at offset (dx, dy): the weights of
\* the entries that list it.
RECURSIVE KernelWeightAt(_, _, _, _)
KernelWeightAt(kernel, i, dx, dy) ==
    IF i > Len(kernel) THEN 0
    ELSE kernel[i].weight
            * Cardinality({j \in 1..Len(kernel[i].to) : kernel[i].to[j] = <<dx, dy>>})
         + KernelWeightAt(kernel, i + 1, dx, dy)

\* The weights of a kernel, each counted once per target of its entry.
RECURSIVE KernelTotal(_, _)
KernelTotal(kernel, i) ==
    IF i > Len(kernel) THEN 0
    ELSE kernel[i].weight * Len(kernel[i].to) + KernelTotal(kernel, i + 1)

QuantWritten ==
    IF quant.pc = "basic" THEN 0..(quant.dest - 1)
    ELSE IF quant.pc = "diffuse" THEN 0..(quant.src - 1)
    ELSE IF quant.pc = "done" THEN 0..(img.Width * img.Height - 1)
    ELSE {}

(***************************************************************************)
(* C6 as claimed.  For any dither mode, any palette and any RGB image,     *)
(* every byte of the image RGBtoPalette returns lies in                    *)
(* [0, palette.size()).                                                    *)
(***************************************************************************)
IndexWithinAnyPalette ==
    quant.pc = "done" =>
        \A k \in DOMAIN quant.out : quant.out[k] \in 0..(PaletteSize - 1)

(***************************************************************************)
(* C6 as amended.  For any dither mode, any palette that is not empty and  *)
(* any RGB image, every byte RGBtoPalette writes lies in                   *)
(* [0, palette.size()), and it has written every byte of the image it      *)
(* returns.                                                                *)
(***************************************************************************)
IndexWithinPalette ==
    PaletteSize > 0 =>
        /\ \A k \in QuantWritten : quant.out[k] \in 0..(PaletteSize - 1)
        /\ quant.pc \in {"basic", "diffuse"} =>
                \A k \in DOMAIN quant.out : k \notin QuantWritten =>
                    quant.out[k] = Uninit

\* A conversion of at least 6 pixels with the Atkinson kernel against the
\* palette of 6 entries has returned an image that uses an entry above 2.
DitheredIntoSixEntries ==
    /\ quant.pc = "done" /\ quant.kernel = 5 /\ PaletteSize = 6
    /\ img.Width * img.Height >= 6
    /\ \E k \in DOMAIN quant.out : quant.out[k] >= 3

\* The entries of the palette at the least distance from (r, g, b), the
\* distance being (512+rmean)*dr^2 + 1024*dg^2 + (767-rmean)*db^2 with
\* rmean = (r + palR) / 2.
Redmean(e, p) ==
    (512 + ((p[1] + e.red) \div 2)) * (p[1] - e.red) * (p[1] - e.red)
    + 1024 * (p[2] - e.green) * (p[2] - e.green)
    + (767 - ((p[1] + e.red) \div 2)) * (p[3] - e.blue) * (p[3] - e.blue)
Nearest(p) ==
    {c \in DOMAIN img.pal :
        \A d \in DOMAIN img.pal : Redmean(img.pal[c], p) <= Redmean(img.pal[d], p)}

(***************************************************************************)
(* C7.  For a dither mode that is 0, negative or above 8, RGBtoPalette     *)
(* writes for each pixel the lowest palette index at the least distance    *)
(* from that pixel's own (r, g, b) (0 when the palette is empty, which is  *)
(* what NearestColor returns then), whatever the other pixels are, and no  *)
(* error is carried.                                                       *)
(***************************************************************************)
BasicQuantizeIsNearestPerPixel ==
    (img.dithermode <= 0 \/ img.dithermode > 8) =>
        /\ quant.pc # "diffuse"
        /\ \A k \in QuantWritten :
            /\ PaletteSize > 0 =>
                /\ quant.out[k] \in Nearest(img.Pixels[k])
                /\ \A c \in Nearest(img.Pixels[k]) : quant.out[k] <= c
            /\ PaletteSize = 0 => quant.out[k] = 0
        /\ \A k \in DOMAIN diffused : diffused[k] = <<0, 0, 0>>

\* A conversion with dither mode 9 has returned: a pixel (100, 100, 100),
\* equally far from entries 3 and 5 of the palette, came out as 3.
QuantizedAboveKernelRange ==
    /\ quant.pc = "done" /\ img.dithermode = 9 /\ PaletteSize = 6
    /\ \E k \in DOMAIN quant.out :
        img.Pixels[k] = <<100, 100, 100>> /\ quant.out[k] = 3

\* The error due at column c of row `row`, channel ch, from the first n
\* pixels in raster order: weight times the residual each spread, over the
\* kernel targets that land exactly on (c, row).
RECURSIVE ErrorDue(_, _, _, _)
ErrorDue(c, row, ch, n) ==
    IF n <= 0 THEN 0
    ELSE KernelWeightAt(ErrorDiffusionKernels[quant.kernel], 1,
                        c - ((n - 1) % img.Width), row - ((n - 1) \div img.Width))
            * diffused[n - 1][ch]
         + ErrorDue(c, row, ch, n - 1)

(***************************************************************************)
(* C10.  In RGB2P_ErrorDiffusion, for every kernel, each cell of the three *)
(* error rows holds, per channel, the sum of weight * residual over        *)
(* exactly the pixels processed so far and the kernel targets that land on *)
(* that cell's column and row (the row being processed and the two below   *)
(* it), so the error read at (x, y) is that sum over the earlier pixels; a *)
(* target whose column is outside [0, Width) adds to no cell; and the      *)
(* residual a pixel spread is its channel plus the error read / 65536,     *)
(* clamped to [0, 255], minus the chosen palette entry's channel.          *)
(***************************************************************************)
ErrorRowsHoldWhatIsDue ==
    (quant.pc = "diffuse" /\ PaletteSize > 0) =>
        /\ \A r \in 0..2, c \in 0..(img.Width - 1), ch \in 1..3 :
                quant.error[r][c][ch] =
                    ErrorDue(c, (img.Height - quant.y) + r, ch, quant.src)
        /\ \A k \in 0..(quant.src - 1) :
            LET e == img.pal[quant.out[k]]
                pe == << e.red, e.green, e.blue >>
            IN  \A ch \in 1..3 :
                    diffused[k][ch] =
                        Clamp(img.Pixels[k][ch]
                              + TruncDiv(ErrorDue(k % img.Width, k \div img.Width,
                                                  ch, k), 65536))
                        - pe[ch]

\* A Jarvis-Judice-Ninke conversion is two pixels into the third row of an
\* image at least 3 wide: the cell it reads next holds error that is not
\* zero, part of it spread from the first row, two rows up.
ThirdRowReadsRotatedError ==
    /\ quant.pc = "diffuse" /\ quant.kernel = 2 /\ img.Width >= 3
    /\ img.Height - quant.y = 2 /\ quant.x = 2
    /\ quant.error[0][2][1] # 0
    /\ ErrorDue(2, 2, 1, img.Width) # 0

(***************************************************************************)
(* Ownership of the pixel buffer: ChunkyBitmap construction, move          *)
(* construction, move assignment, Clear and destruction.                   *)
(*                                                                         *)
(* objs[o] is one ChunkyBitmap: its fields, whether it has been            *)
(* constructed or destroyed, and whether it was last the source of a move  *)
(* into another instance.  heap[b] is one buffer new[] returned: how often *)
(* delete[] was applied to it, and whether an owner gave it up through     *)
(* Clear(false) outside a move.                                            *)
(***************************************************************************)
MaxObjects == 3
MaxBuffers == 3
MaxOwnedWidth == 2

Objects == 1..MaxObjects

NoObject ==
    [life |-> "none", Width |-> 0, Height |-> 0, Pitch |-> 0,
     BytesPerPixel |-> 0, Pixels |-> Null, movedFrom |-> FALSE]

OwnerInit ==
    /\ objs = [o \in Objects |-> NoObject]
    /\ heap = <<>>

\* new uint8_t[...]: a buffer no one has seen before.
NewBuffer(h) == Append(h, [released |-> 0, dropped |-> FALSE])

\* delete[] p
DeleteBuffer(h, p) == [h EXCEPT ![p].released = h[p].released + 1]

\* if (Pixels != nullptr) delete[] Pixels;
DeleteIfOwned(h, obj) ==
    IF obj.Pixels # Null THEN DeleteBuffer(h, obj.Pixels) ELSE h

\* Clear(release), the fields:  Pixels = nullptr; Width = Height = Pitch =
\* BytesPerPixel = 0.
Cleared(obj) ==
    [obj EXCEPT !.Pixels = Null, !.Width = 0, !.Height = 0, !.Pitch = 0,
                !.BytesPerPixel = 0]

\* A source that keeps its fields after a move.
MovedFromKeepsAll(obj) == [obj EXCEPT !.movedFrom = TRUE]

\* o.Clear(false) at the end of a move out of o.
MovedFrom(obj) == [Cleared(obj) EXCEPT !.movedFrom = TRUE]

\* ChunkyBitmap::ChunkyBitmap(int w, int h, int bpp), Alloc passing its
\* asserts.
AllocNew(o) ==
    /\ objs[o].life = "none"
    /\ Len(heap) < MaxBuffers
    /\ \E w \in 1..MaxOwnedWidth, h \in 1..MaxOwnedWidth, bpp \in BytesPerPixelValues :
        objs' = [objs EXCEPT ![o] =
                    [life |-> "live", Width |-> w, Height |-> h, Pitch |-> w * bpp,
                     BytesPerPixel |-> bpp, Pixels |-> Len(heap) + 1,
                     movedFrom |-> FALSE]]
    /\ heap' = NewBuffer(heap)
    /\ RestOfOwner

\* ChunkyBitmap::ChunkyBitmap(const ChunkyBitmap &o, int fillcolor): the
\* dimensions of src and a buffer of its own.
FillNew(o, src) ==
    /\ objs[o].life = "none" /\ objs[src].life = "live"
    /\ Len(heap) < MaxBuffers
    /\ objs' = [objs EXCEPT ![o] =
                    [objs[src] EXCEPT !.Pixels = Len(heap) + 1,
                                      !.movedFrom = FALSE]]
    /\ heap' = NewBuffer(heap)
    /\ RestOfOwner

\* ChunkyBitmap::ChunkyBitmap(ChunkyBitmap &&o)
MoveConstruct(o, src) ==
    /\ objs[o].life = "none" /\ objs[src].life = "live"
    /\ objs' = [objs EXCEPT ![o] = [objs[src] EXCEPT !.movedFrom = FALSE],
                            ![src] = MovedFrom(objs[src])]
    /\ UNCHANGED heap
    /\ RestOfOwner

\* ChunkyBitmap::operator=(ChunkyBitmap &&o)
MoveAssign(o, src) ==
    /\ objs[o].life = "live" /\ objs[src].life = "live"
    /\ IF src # o
       THEN /\ heap' = DeleteIfOwned(heap, objs[o])
            /\ objs' = [objs EXCEPT ![o] = [objs[src] EXCEPT !.movedFrom = FALSE],
                                    ![src] = MovedFrom(objs[src])]
       ELSE UNCHANGED <<objs, heap>>
    /\ RestOfOwner

\* ChunkyBitmap::Clear(bool release), called on an instance.
Clear(o, release) ==
    /\ objs[o].life = "live"
    /\ heap' = IF objs[o].Pixels = Null THEN heap
               ELSE IF release THEN DeleteBuffer(heap, objs[o].Pixels)
               ELSE [heap EXCEPT ![objs[o].Pixels].dropped = TRUE]
    /\ objs' = [objs EXCEPT ![o] = Cleared(objs[o])]
    /\ RestOfOwner

\* ChunkyBitmap::~ChunkyBitmap()
Destroy(o) ==
    /\ objs[o].life = "live"
    /\ heap' = DeleteIfOwned(heap, objs[o])
    /\ objs' = [objs EXCEPT ![o].life = "destroyed"]
    /\ RestOfOwner

AllocNewAny == \E o \in Objects : AllocNew(o)
FillNewAny == \E o, src \in Objects : FillNew(o, src)
MoveConstructAny == \E o, src \in Objects : MoveConstruct(o, src)
MoveAssignAny == \E o, src \in Objects : MoveAssign(o, src)
ClearAny == \E o \in Objects, release \in BOOLEAN : Clear(o, release)
DestroyAny == \E o \in Objects : Destroy(o)

OwnerNext ==
    \/ AllocNewAny
    \/ FillNewAny
    \/ MoveConstructAny
    \/ MoveAssignAny
    \/ ClearAny
    \/ DestroyAny

InitOwner ==
    OwnerInit /\ ExpandIdle /\ PlanarIdle /\ HamIdle /\ QuantIdle /\ CallIdle
NextOwner == OwnerNext
SpecOwner == InitOwner /\ [][NextOwner]_vars

\* The live instances that own buffer p.
OwnersOf(p) == {o \in Objects : objs[o].life = "live" /\ objs[o].Pixels = p}

\* A moved-from instance is empty, no two live instances own one buffer, no
\* buffer is released twice and none that is released still has an owner.
OwnershipIsExclusive ==
    /\ \A o \in Objects :
        (objs[o].life = "live" /\ objs[o].movedFrom) =>
            /\ objs[o].Width = 0 /\ objs[o].Height = 0 /\ objs[o].Pitch = 0
            /\ objs[o].BytesPerPixel = 0 /\ objs[o].Pixels = Null
    /\ \A p \in DOMAIN heap :
        /\ Cardinality(OwnersOf(p)) <= 1
        /\ heap[p].released <= 1
        /\ heap[p].released = 1 => OwnersOf(p) = {}

(***************************************************************************)
(* C8 as claimed.  Over any sequence of allocation, move construction,     *)
(* move assignment, Clear and destruction, a moved-from instance has       *)
(* Width, Height, Pitch and BytesPerPixel 0 and no buffer, no two live     *)
(* instances own the same buffer, and every allocated buffer is released   *)
(* exactly once: never twice, and once when no live instance owns it any   *)
(* more.                                                                   *)
(***************************************************************************)
EveryBufferReleasedOnce ==
    /\ OwnershipIsExclusive
    /\ \A p \in DOMAIN heap : OwnersOf(p) = {} => heap[p].released = 1

(***************************************************************************)
(* C8 as amended.  Over any such sequence, the source of a move into       *)
(* another instance has Width, Height, Pitch and BytesPerPixel 0 and no    *)
(* buffer, no two live instances own the same buffer, no buffer is         *)
(* released twice, and a buffer that no live instance owns any more has    *)
(* been released exactly once unless its owner gave it up through          *)
(* Clear(false), in which case it is not released at all.                  *)
(***************************************************************************)
BufferReleasedOnceUnlessDropped ==
    /\ OwnershipIsExclusive
    /\ \A p \in DOMAIN heap :
        /\ (OwnersOf(p) = {} /\ ~heap[p].dropped) => heap[p].released = 1
        /\ heap[p].dropped => (OwnersOf(p) = {} /\ heap[p].released = 0)

\* A buffer went from one instance to a second by move construction and to
\* a third by move assignment, which released the buffer the third owned;
\* all three were then destroyed.
MovedTwiceThenDestroyed ==
    /\ \A o \in Objects : objs[o].life = "destroyed"
    /\ Len(heap) = 2
    /\ \A p \in DOMAIN heap : heap[p].released = 1
    /\ \E o, q \in Objects :
        /\ o # q /\ objs[o].movedFrom /\ objs[q].movedFrom
        /\ objs[o].Pixels = Null /\ objs[q].Pixels = Null

(***************************************************************************)
(* Construction parameters: one call of ChunkyBitmap::Alloc, of the        *)
(* PlanarBitmap constructor, or of HAM6toRGB / HAM8toRGB, from its asserts *)
(* to its new[].  The asserts are taken as compiled in.                    *)
(*                                                                         *)
(* call.w, call.h are the dimensions passed (of *this for the HAM          *)
(* conversions), call.n the bytes per pixel or the plane count, call.pal   *)
(* the palette size, call.size the bytes new[] returned a buffer for.      *)
(***************************************************************************)
MaxCallDim == 2

CallKinds == {"Alloc", "PlanarBitmap", "HAM6toRGB", "HAM8toRGB"}

HamModeOf(kind) == IF kind = "HAM6toRGB" THEN 6 ELSE 8

CallInit ==
    \/ \E w \in (-MaxCallDim)..MaxCallDim, h \in (-MaxCallDim)..MaxCallDim, bpp \in 0..4 :
        call = [pc |-> "called", kind |-> "Alloc", w |-> w, h |-> h, n |-> bpp,
                pal |-> 0, size |-> Null]
    \/ \E w \in (-MaxCallDim)..MaxCallDim, h \in (-MaxCallDim)..MaxCallDim,
          nPlanes \in {-1, 0, 1, 9, MaxPlanes, MaxPlanes + 1} :
        call = [pc |-> "called", kind |-> "PlanarBitmap", w |-> w, h |-> h,
                n |-> nPlanes, pal |-> 0, size |-> Null]
    \/ \E kind \in {"HAM6toRGB", "HAM8toRGB"}, w \in 1..MaxCallDim, h \in 1..MaxCallDim,
          bpp \in BytesPerPixelValues, palsize \in {0, 15, 16, 63, 64} :
        call = [pc |-> "called", kind |-> kind, w |-> w, h |-> h, n |-> bpp,
                pal |-> palsize, size |-> Null]

\* new uint8_t[n] for an int n: a buffer of n bytes, or, n converted to
\* size_t being out of reach when n is negative, an exception.
NewArray(n) ==
    IF n < 0 THEN [call EXCEPT !.pc = "threw"]
    ELSE [call EXCEPT !.pc = "allocated", !.size = n]

\* assert(w != 0); assert(h != 0); assert(bpp == 1 || bpp == 2 || bpp == 4);
AllocAsserts(w, h, bpp) == w # 0 /\ h # 0 /\ bpp \in {1, 2, 4}

\* ChunkyBitmap::Alloc, its asserts.
AllocCheck ==
    /\ call.pc = "called" /\ call.kind = "Alloc"
    /\ call' = [call EXCEPT !.pc = IF AllocAsserts(call.w, call.h, call.n)
                                   THEN "checked" ELSE "asserted"]
    /\ RestOfCall

\* ChunkyBitmap::Alloc, past its asserts:  Pitch = Width * BytesPerPixel;
\* Pixels = new uint8_t[Pitch * Height];
AllocPixels ==
    /\ call.pc = "checked" /\ call.kind = "Alloc"
    /\ call' = NewArray((call.w * call.n) * call.h)
    /\ RestOfCall

\* PlanarBitmap::PlanarBitmap, its assert.
PlanarBitmapCheck ==
    /\ call.pc = "called" /\ call.kind = "PlanarBitmap"
    /\ call' = [call EXCEPT !.pc = IF call.n >= 0 /\ call.n < 32
                                   THEN "checked" ELSE "asserted"]
    /\ RestOfCall

\* PlanarBitmap::PlanarBitmap, past its assert:
\* PlaneData = new uint8_t[Pitch * Height * realplanes];
PlanarBitmapPlaneData ==
    /\ call.pc = "checked" /\ call.kind = "PlanarBitmap"
    /\ call' = NewArray(PlanarPitch(call.w) * call.h * RealPlanes(call.n))
    /\ RestOfCall

\* HAM6toRGB / HAM8toRGB, their asserts.
HamCheck ==
    /\ call.pc = "called" /\ call.kind \in {"HAM6toRGB", "HAM8toRGB"}
    /\ call' = [call EXCEPT !.pc =
                    IF HamPrecondition(HamModeOf(call.kind), call.pal, call.n)
                    THEN "checked" ELSE "asserted"]
    /\ RestOfCall

\* HAM6toRGB / HAM8toRGB, past their asserts:  ChunkyBitmap out(Width, Height, 4);
HamOut ==
    /\ call.pc = "checked" /\ call.kind \in {"HAM6toRGB", "HAM8toRGB"}
    /\ call' = IF AllocAsserts(call.w, call.h, 4)
               THEN NewArray((call.w * 4) * call.h)
               ELSE [call EXCEPT !.pc = "asserted"]
    /\ RestOfCall

CallNext ==
    \/ AllocCheck
    \/ AllocPixels
    \/ PlanarBitmapCheck
    \/ PlanarBitmapPlaneData
    \/ HamCheck
    \/ HamOut

InitCall ==
    CallInit /\ ExpandIdle /\ PlanarIdle /\ HamIdle /\ QuantIdle /\ OwnerIdle
NextCall == CallNext
SpecCall == InitCall /\ [][NextCall]_vars

\* The parameters of the call are the valid ones: positive dimensions and
\* 1, 2 or 4 bytes per pixel for Alloc; positive dimensions and 0 to 31
\* planes for PlanarBitmap; 16 (HAM6) or 64 (HAM8) palette entries at least
\* for the HAM conversions.
ValidParameters ==
    IF call.kind = "Alloc"
    THEN call.w > 0 /\ call.h > 0 /\ call.n \in {1, 2, 4}
    ELSE IF call.kind = "PlanarBitmap"
    THEN call.w > 0 /\ call.h > 0 /\ call.n \in 0..31
    ELSE call.pal >= (IF call.kind = "HAM6toRGB" THEN 16 ELSE 64)

(***************************************************************************)
(* C9.  Every invalid construction parameter is detected by a precondition *)
(* check before any buffer is allocated: a call whose parameters are not   *)
(* valid never gets past its asserts, so it neither reaches new[] nor is   *)
(* given a buffer.                                                         *)
(***************************************************************************)
InvalidParametersStopAtTheAsserts ==
    (call.pc # "idle" /\ ~ValidParameters) =>
        /\ call.pc \in {"called", "asserted"}
        /\ call.size = Null

(***************************************************************************)
(* C1.  When Expand(scalex, scaley) has returned, every pixel of the       *)
(* destination block [x*scalex, x*scalex+scalex) x [y*scaley,              *)
(* y*scaley+scaley) holds the original value of source pixel (x, y), for   *)
(* every BytesPerPixel in {1, 2, 4} and all scale factors >= 1; with       *)
(* scalex = scaley = 1 the buffer is the one Expand was given.             *)
(***************************************************************************)
ExpandReplicatesEveryPixel ==
    xp.pc = "done" =>
        /\ \A x \in 0..(orig.w - 1), y \in 0..(orig.h - 1),
              i \in 0..(xp.scalex - 1), j \in 0..(xp.scaley - 1) :
                bmp.Pixels[(y * xp.scaley + j) * bmp.Width + (x * xp.scalex + i)]
                    = orig.img[y * orig.w + x]
        /\ (xp.scalex = 1 /\ xp.scaley = 1) =>
                bmp.Pixels = LoadedPixels(orig.w, orig.h, bmp.Width, bmp.Height,
                                          orig.img)

\* Expand has returned from a vertical-only expansion of several rows of
\* 2-byte pixels.
ExpandedVerticallyOnly ==
    /\ xp.pc = "done" /\ xp.scalex = 1 /\ xp.scaley > 1
    /\ bmp.BytesPerPixel = 2 /\ orig.h > 1 /\ orig.w > 1

====
